---- MODULE Spec2Model ----
(***************************************************************************)
(* A model of the crossword CSP solver of src/crossword/generate.py        *)
(* (class CrosswordCreator): node consistency, revise, AC-3 and            *)
(* backtracking search, over small grids and small dictionaries.           *)
(*                                                                         *)
(* Words are sequences of letters; the code's 0-based positions are kept   *)
(* in the overlaps and shifted by one where a word is indexed.             *)
(***************************************************************************)
EXTENDS Integers, Sequences, FiniteSets, TLC

VARIABLES
    variables,   \* crossword.variables: the slots of the grid
    words,       \* crossword.words: the dictionary
    varorder,    \* iteration order of the dict self.domains (fixed per run)
    domains,     \* self.domains: variable -> set of candidate words
    pc,          \* position of the running call
    caller,      \* who called the running ac3 / backtrack: "solve" or "api"
    arcs,        \* the work list of ac3
    ac3ret,      \* what the last ac3 call returned: "unset", "True", "False"
    assignment,  \* the dict passed down backtrack: variable -> word
    stack,       \* the frames of backtrack: [var, values, k]
    ret,         \* the value returned by backtrack to its caller
    result,      \* what solve() returned
    last,        \* the latest call of a method: its name, arguments and return
    prev,        \* the name of the call before that one
    dom0,        \* self.domains when the latest call started
    btcalls,     \* number of calls of backtrack made by solve()
    prevret,     \* what the call before the latest one returned
    nrev,        \* revisions made so far by the latest ac3 call
    arcs0,       \* the work list the latest ac3 call started from
    outval,      \* the variable or the list of values the latest call returned
    earlier,     \* what an earlier run of the program on this input returned
    entered      \* the assignment each running call of backtrack started with

vars == <<variables, words, varorder, domains, pc, caller, arcs, ac3ret,
          assignment, stack, ret, result, last, prev, dom0, btcalls,
          prevret, nrev, arcs0, outval, earlier, entered>>

----------------------------------------------------------------------------
(* Bounds of the model *)

\* Largest dictionary drawn.
MaxDict == 3

\* Letters of the alphabet and word lengths the dictionaries are drawn from.
Letters == {"A", "B"}
Lengths == {2, 3}

WordPool == UNION {[1..n -> Letters] : n \in Lengths}

Dictionaries == {D \in SUBSET WordPool : Cardinality(D) <= MaxDict}

----------------------------------------------------------------------------
(* The grid model: crossword.py, consumed by the solver *)

ACROSS == "across"
DOWN == "down"

\* Variable(i, j, direction, length)
Variable(i, j, direction, length) ==
    [i |-> i, j |-> j, direction |-> direction, length |-> length]

\* Variable.cells: the cells a slot occupies, in word order.
Cells(v) ==
    [k \in 1..v.length |->
        <<v.i + (IF v.direction = DOWN THEN k - 1 ELSE 0),
          v.j + (IF v.direction = ACROSS THEN k - 1 ELSE 0)>>]

\* Python's None, where a tuple may stand (an empty tuple is falsy too).
None == <<>>

\* list.index, 0-based
IndexOf(seq, e) == (CHOOSE k \in 1..Len(seq) : seq[k] = e) - 1

Range(seq) == {seq[k] : k \in 1..Len(seq)}

\* crossword.overlaps.get((x, y)): (i, j) when x's i-th character is y's
\* j-th character, None when the slots share no cell (or x = y: no key).
Overlaps(x, y) ==
    IF x = y THEN None
    ELSE LET common == Range(Cells(x)) \cap Range(Cells(y))
         IN  IF common = {} THEN None
             ELSE LET c == CHOOSE c \in common : TRUE
                  IN  <<IndexOf(Cells(x), c), IndexOf(Cells(y), c)>>

\* crossword.neighbors(var)
Neighbors(V, var) == {v \in V : v # var /\ Overlaps(v, var) # None}

\* The grids the model draws from.
\* two crossing slots; a chain of three slots whose ends have one length; a
\* chain whose crossing slots have one length; two slots apart; a crossing
\* and a slot apart.
GridCross == {Variable(0, 0, ACROSS, 3), Variable(0, 1, DOWN, 2)}
GridChain == {Variable(0, 0, ACROSS, 2), Variable(0, 1, DOWN, 3),
              Variable(2, 1, ACROSS, 2)}
GridHook  == {Variable(0, 0, ACROSS, 3), Variable(0, 2, DOWN, 3),
              Variable(2, 2, ACROSS, 2)}
GridApart == {Variable(0, 0, ACROSS, 2), Variable(2, 0, ACROSS, 3)}
GridMixed == {Variable(0, 0, ACROSS, 2), Variable(0, 1, DOWN, 2),
              Variable(2, 3, ACROSS, 3)}

Grids == {GridCross, GridChain, GridHook, GridApart, GridMixed}

\* All the orders a set can be iterated in.
Orderings(S) ==
    {s \in [1..Cardinality(S) -> S] : \A a, b \in 1..Cardinality(S) :
                                          a # b => s[a] # s[b]}

----------------------------------------------------------------------------
(* CrosswordCreator *)

\* __init__: every variable starts with a copy of the whole dictionary.
InitDomains(V, W) == [v \in V |-> W]

\* enforce_node_consistency: for each variable, collect the words whose
\* length differs from the variable's and remove them.
\* (changed: only the words that are too short are collected)
NodeRemoveListShorter(doms, var) ==
    {word \in doms[var] : Len(word) < var.length}

\* (changed: the loop stops at the first word collected)
NodeRemoveListFirst(doms, var) ==
    LET wrong == {word \in doms[var] : var.length # Len(word)}
    IN  IF wrong = {} THEN {} ELSE {CHOOSE word \in wrong : TRUE}

NodeRemoveList(doms, var) == {word \in doms[var] : var.length # Len(word)}

EnforceNodeConsistency(doms) ==
    [var \in DOMAIN doms |-> doms[var] \ NodeRemoveList(doms, var)]

\* Whether every word of every domain has its variable's length.
NodeConsistent(doms) ==
    \A var \in DOMAIN doms : \A word \in doms[var] : Len(word) = var.length

\* (changed: a word of x is compared with one word of y only)
ReviseRemoveListOne(doms, x, y) ==
    LET overlap == Overlaps(x, y)
    IN  IF overlap # None /\ doms[y] # {}
        THEN LET yword == CHOOSE w \in doms[y] : TRUE
             IN  {xword \in doms[x] :
                     xword[overlap[1] + 1] # yword[overlap[2] + 1]}
        ELSE {}

\* (changed: a word of x is kept only if every word of y matches it)
ReviseRemoveListEvery(doms, x, y) ==
    LET overlap == Overlaps(x, y)
    IN  IF overlap # None
        THEN {xword \in doms[x] :
                ~ \A yword \in doms[y] :
                      xword[overlap[1] + 1] = yword[overlap[2] + 1]}
        ELSE {}

\* (changed: a word of x is kept if some word of y differs from it)
ReviseRemoveListDiffer(doms, x, y) ==
    LET overlap == Overlaps(x, y)
    IN  IF overlap # None
        THEN {xword \in doms[x] :
                ~ \E yword \in doms[y] :
                      xword[overlap[1] + 1] # yword[overlap[2] + 1]}
        ELSE {}

\* (changed: variables without an overlap are compared at position 0)
ReviseRemoveListDefault(doms, x, y) ==
    LET overlap == IF Overlaps(x, y) # None THEN Overlaps(x, y) ELSE <<0, 0>>
    IN  {xword \in doms[x] :
            ~ \E yword \in doms[y] :
                  xword[overlap[1] + 1] = yword[overlap[2] + 1]}

\* revise, the words collected in removelist: the words of x's domain that
\* no word of y's domain matches at the overlap.
ReviseRemoveList(doms, x, y) ==
    LET overlap == Overlaps(x, y)
    IN  IF overlap # None
        THEN {xword \in doms[x] :
                ~ \E yword \in doms[y] :
                      xword[overlap[1] + 1] = yword[overlap[2] + 1]}
        ELSE {}

\* revise(x, y): the domains it leaves and the flag it returns.
Revise(doms, x, y) ==
    LET removelist == ReviseRemoveList(doms, x, y)
    IN  [domains  |-> [doms EXCEPT ![x] = doms[x] \ removelist],
         revision |-> removelist # {}]

\* ac3, arcs is None (or empty): for each variable in the order of
\* self.domains, an arc to each of its neighbors, the neighbors in any order.
RECURSIVE InitialArcs(_, _, _)
InitialArcs(V, order, k) ==
    IF k = 0 THEN {<<>>}
    ELSE LET var == order[k]
             own == {<<var, neighbor>> : neighbor \in Neighbors(V, var) \ {var}}
         IN  {head \o tail : head \in InitialArcs(V, order, k - 1),
                             tail \in Orderings(own)}

\* (changed: the arc from y is appended too)
RequeuedAll(V, x, y) == {<<z, x>> : z \in Neighbors(V, x)}

\* (changed: the arcs appended run from x to its neighbors)
RequeuedForward(V, x, y) == {<<x, z>> : z \in Neighbors(V, x) \ {y}}

\* (changed: nothing is appended after a revision)
RequeuedNothing(V, x, y) == {}

\* ac3, the arcs appended after a revision of x against y.
Requeued(V, x, y) == {<<z, x>> : z \in Neighbors(V, x) \ {y}}

\* assignment_complete
AssignmentComplete(doms, a) == \A var \in DOMAIN doms : var \in DOMAIN a

\* assignment.update({var: value}) and assignment.pop(var)
Update(a, var, value) ==
    [v \in DOMAIN a \cup {var} |-> IF v = var THEN value ELSE a[v]]
Pop(a, var) == [v \in DOMAIN a \ {var} |-> a[v]]

\* (changed: the words of neighboring variables are not compared)
ConsistentAtNoClash(V, a, var, seen) ==
    LET word == a[var]
    IN  IF var.length # Len(word) \/ word \in seen THEN {"False"}
        ELSE {"next"}

\* (changed: a word used twice is not rejected)
ConsistentAtReuse(V, a, var, seen) ==
    LET word == a[var]
        near == Neighbors(V, var) \cap DOMAIN a
        short == {n \in near : Overlaps(var, n)[2] >= Len(a[n])}
        clash == {n \in near \ short :
                    word[Overlaps(var, n)[1] + 1] # a[n][Overlaps(var, n)[2] + 1]}
    IN  IF var.length # Len(word) THEN {"False"}
        ELSE IF short = {} /\ clash = {} THEN {"next"}
        ELSE {"IndexError" : n \in short} \cup {"False" : n \in clash}

\* consistent, the body of the loop for one variable of the assignment, given
\* the words seen before it: "False" (return False), "IndexError" (a
\* neighbor's word is too short for the overlap) or "next". The neighbors are
\* visited in any order, so more than one outcome may be possible.
ConsistentAt(V, a, var, seen) ==
    LET word == a[var]
        near == Neighbors(V, var) \cap DOMAIN a
        short == {n \in near : Overlaps(var, n)[2] >= Len(a[n])}
        clash == {n \in near \ short :
                    word[Overlaps(var, n)[1] + 1] # a[n][Overlaps(var, n)[2] + 1]}
    IN  IF var.length # Len(word) \/ word \in seen THEN {"False"}
        ELSE IF short = {} /\ clash = {} THEN {"next"}
        ELSE {"IndexError" : n \in short} \cup {"False" : n \in clash}

\* consistent(assignment), keys being the assignment's variables in the
\* dict's order: the outcomes possible after the first k of them.
RECURSIVE ConsistentUpTo(_, _, _, _)
ConsistentUpTo(V, a, keys, k) ==
    IF k = 0 THEN {"next"}
    ELSE LET before == ConsistentUpTo(V, a, keys, k - 1)
             seen == {a[keys[n]] : n \in 1..(k - 1)}
         IN  (before \ {"next"}) \cup
             (IF "next" \in before THEN ConsistentAt(V, a, keys[k], seen) ELSE {})

Consistent(V, a, keys) ==
    LET out == ConsistentUpTo(V, a, keys, Len(keys))
    IN  (out \ {"next"}) \cup (IF "next" \in out THEN {"True"} ELSE {})

\* select_unassigned_variable, line 272: the placeholder entry of minvalues
Placeholder == 99999

\* select_unassigned_variable, first loop: minvalues after the first k
\* variables of self.domains, a list of <<variable, count>>.
RECURSIVE MinValues(_, _, _, _)
MinValues(doms, order, a, k) ==
    IF k = 0 THEN << <<Placeholder, Placeholder>> >>
    ELSE LET minvalues == MinValues(doms, order, a, k - 1)
             var == order[k]
             count == Cardinality(doms[var])
         IN  IF var \in DOMAIN a THEN minvalues
             ELSE IF count < minvalues[1][2] THEN << <<var, count>> >>
             ELSE IF count = minvalues[1][2]
                  THEN Append(minvalues, <<var, count>>)
                  ELSE minvalues

\* (changed: the first of the tied variables is kept)
HighestDegreeFirst(V, minvalues, k) == <<minvalues[1][1], 0>>

\* select_unassigned_variable, second loop: minvalues[0] after the first k
\* entries of minvalues, its count replaced by 0 before the loop.
RECURSIVE HighestDegree(_, _, _)
HighestDegree(V, minvalues, k) ==
    IF k = 0 THEN <<minvalues[1][1], 0>>
    ELSE LET best == HighestDegree(V, minvalues, k - 1)
             var == minvalues[k][1]
             n == Cardinality(Neighbors(V, var))
         IN  IF n > best[2] THEN <<var, n>> ELSE best

\* select_unassigned_variable: minvalues is the list the first loop leaves;
\* the variable returned is minvalues[0][0] after the second loop.
SelectUnassignedVariable(V, doms, order, a) ==
    CHOOSE var \in {IF Len(minvalues) > 1
                    THEN HighestDegree(V, minvalues, Len(minvalues))[1]
                    ELSE minvalues[1][1] :
                        minvalues \in {MinValues(doms, order, a, Len(order))}} :
        TRUE

\* order_domain_values, the counter of a value: the neighbors of var whose
\* domain holds it. (The test `value not in assignment` looks a word up among
\* the assignment's keys, which are variables: it is always true.)
Restrictions(V, doms, var, value) ==
    Cardinality({neighbor \in Neighbors(V, var) : value \in doms[neighbor]})

\* (changed: the last value of the sorted list is left out)
OrderDomainValuesShort(V, doms, var, a) ==
    {SubSeq(vlist, 1, Len(vlist) - 1) :
        vlist \in {l \in Orderings(doms[var]) :
            \A m, n \in 1..Len(l) :
                m < n => Cardinality({neighbor \in Neighbors(V, var) :
                                        l[m] \in doms[neighbor]})
                           <= Cardinality({neighbor \in Neighbors(V, var) :
                                             l[n] \in doms[neighbor]})}}

\* order_domain_values: the domain of var in the order sorted() leaves it in,
\* ascending by counter; equal counters keep the set's iteration order.
OrderDomainValues(V, doms, var, a) ==
    {vlist \in Orderings(doms[var]) :
        \A m, n \in 1..Len(vlist) :
            m < n => Restrictions(V, doms, var, vlist[m])
                       <= Restrictions(V, doms, var, vlist[n])}

\* The keys of the assignment inside backtrack, in insertion order.
KeysOf(frames) == [k \in 1..Len(frames) |-> frames[k].var]

\* (changed: a returned assignment is never taken as a success)
TruthyNever(r) == FALSE

\* `if result:` an assignment that is not None and not empty
Truthy(r) == ~r.none /\ DOMAIN r.val # {}

\* An empty assignment: dict()
EmptyAssignment == [v \in {} |-> <<>>]

\* The value a finished call hands back: None or an assignment.
ReturnNone == [none |-> TRUE, val |-> EmptyAssignment]
ReturnValue(a) == [none |-> FALSE, val |-> a]

\* The arcs argument of ac3: None, or a list.
NoArcs == [none |-> TRUE, list |-> <<>>]
ArcList(list) == [none |-> FALSE, list |-> list]

\* A call of a method: ret is "unset" until it returns.
Call(op, x, y, given, r) ==
    [op |-> op, x |-> x, y |-> y, arcs |-> given, ret |-> r]
NoCall == Call("none", None, None, NoArcs, "unset")

\* What an earlier run returned: nothing has run yet, or run's result.
NoRun == [ran |-> FALSE, result |-> ReturnNone]
Ran(r) == [ran |-> TRUE, result |-> r]

\* The latest call was of op and has returned.
Returned(op) == last.op = op /\ last.ret # "unset"

----------------------------------------------------------------------------
(* The program: main() builds a CrosswordCreator and calls solve() *)

Init ==
    /\ variables \in Grids
    /\ words \in Dictionaries
    /\ varorder \in Orderings(variables)
    /\ domains = InitDomains(variables, words)
    /\ pc = "solve"
    /\ caller = "solve"
    /\ arcs = <<>>
    /\ ac3ret = "unset"
    /\ assignment = EmptyAssignment
    /\ stack = <<>>
    /\ ret = ReturnNone
    /\ result = ReturnNone
    /\ last = NoCall
    /\ prev = "none"
    /\ dom0 = domains
    /\ btcalls = 0
    /\ prevret = "unset"
    /\ nrev = 0
    /\ arcs0 = <<>>
    /\ outval = None
    /\ earlier = NoRun
    /\ entered = <<>>

\* solve, line 92: self.enforce_node_consistency()
SolveEnforce ==
    /\ pc = "solve"
    /\ domains' = EnforceNodeConsistency(domains)
    /\ pc' = "solve_ac3"
    /\ last' = Call("enforce_node_consistency", None, None, NoArcs, "None")
    /\ prev' = last.op
    /\ dom0' = domains
    /\ UNCHANGED <<variables, words, varorder, caller, arcs, ac3ret,
                   assignment, stack, ret, result, btcalls>>
    /\ prevret' = last.ret
    /\ UNCHANGED <<nrev, arcs0, outval, earlier>>
    /\ UNCHANGED entered

\* solve, line 93: self.ac3(), entered with arcs = None
SolveAc3 ==
    /\ pc = "solve_ac3"
    /\ arcs' \in InitialArcs(variables, varorder, Len(varorder))
    /\ caller' = "solve"
    /\ ac3ret' = "unset"
    /\ last' = Call("ac3", None, None, NoArcs, "unset")
    /\ prev' = last.op
    /\ dom0' = domains
    /\ pc' = "ac3_loop"
    /\ UNCHANGED <<variables, words, varorder, domains, assignment, stack,
                   ret, result, btcalls>>
    /\ prevret' = last.ret
    /\ nrev' = 0
    /\ arcs0' = arcs'
    /\ UNCHANGED <<outval, earlier>>
    /\ UNCHANGED entered

\* Where a finished ac3 call continues.
AfterAc3 == IF caller = "solve" THEN "solve_bt" ELSE "idle"

\* (changed: an emptied domain does not end the loop)
Ac3StepOn ==
    /\ pc = "ac3_loop"
    /\ arcs # <<>>
    /\ LET x == arcs[Len(arcs)][1]
           y == arcs[Len(arcs)][2]
           rest == SubSeq(arcs, 1, Len(arcs) - 1)
           r == Revise(domains, x, y)
       IN  /\ domains' = r.domains
           /\ nrev' = IF r.revision THEN nrev + 1 ELSE nrev
           /\ IF r.revision
              THEN arcs' \in {rest \o more :
                                more \in Orderings(Requeued(variables, x, y))}
              ELSE arcs' = rest
    /\ UNCHANGED <<variables, words, varorder, caller, assignment, stack,
                   ret, result, prev, dom0, btcalls, ac3ret, pc, last>>
    /\ UNCHANGED <<prevret, arcs0, outval, earlier>>
    /\ UNCHANGED entered

\* (changed: the last arc is read but stays on the list)
Ac3StepPeek ==
    /\ pc = "ac3_loop"
    /\ arcs # <<>>
    /\ LET x == arcs[Len(arcs)][1]
           y == arcs[Len(arcs)][2]
           rest == arcs
           r == Revise(domains, x, y)
       IN  /\ domains' = r.domains
           /\ nrev' = IF r.revision THEN nrev + 1 ELSE nrev
           /\ IF r.revision
              THEN IF r.domains[x] = {}
                   THEN /\ arcs' = rest
                        /\ ac3ret' = "False"
                        /\ pc' = AfterAc3
                        /\ last' = [last EXCEPT !.ret = "False"]
                   ELSE /\ arcs' \in {rest \o more :
                                        more \in Orderings(Requeued(variables, x, y))}
                        /\ UNCHANGED <<ac3ret, pc, last>>
              ELSE /\ arcs' = rest
                   /\ UNCHANGED <<ac3ret, pc, last>>
    /\ UNCHANGED <<variables, words, varorder, caller, assignment, stack,
                   ret, result, prev, dom0, btcalls>>
    /\ UNCHANGED <<prevret, arcs0, outval, earlier>>
    /\ UNCHANGED entered

\* ac3, one turn of the while loop: pop the last arc, revise it, and either
\* return False (x's domain is empty) or append the arcs (z, x).
Ac3Step ==
    /\ pc = "ac3_loop"
    /\ arcs # <<>>
    /\ LET x == arcs[Len(arcs)][1]
           y == arcs[Len(arcs)][2]
           rest == SubSeq(arcs, 1, Len(arcs) - 1)
           r == Revise(domains, x, y)
       IN  /\ domains' = r.domains
           /\ nrev' = IF r.revision THEN nrev + 1 ELSE nrev
           /\ IF r.revision
              THEN IF r.domains[x] = {}
                   THEN /\ arcs' = rest
                        /\ ac3ret' = "False"
                        /\ pc' = AfterAc3
                        /\ last' = [last EXCEPT !.ret = "False"]
                   ELSE /\ arcs' \in {rest \o more :
                                        more \in Orderings(Requeued(variables, x, y))}
                        /\ UNCHANGED <<ac3ret, pc, last>>
              ELSE /\ arcs' = rest
                   /\ UNCHANGED <<ac3ret, pc, last>>
    /\ UNCHANGED <<variables, words, varorder, caller, assignment, stack,
                   ret, result, prev, dom0, btcalls>>
    /\ UNCHANGED <<prevret, arcs0, outval, earlier>>
    /\ UNCHANGED entered

\* ac3, line 186: the list is empty, return True
Ac3Exit ==
    /\ pc = "ac3_loop"
    /\ arcs = <<>>
    /\ ac3ret' = "True"
    /\ pc' = AfterAc3
    /\ last' = [last EXCEPT !.ret = "True"]
    /\ UNCHANGED <<variables, words, varorder, domains, caller, arcs,
                   assignment, stack, ret, result, prev, dom0, btcalls>>
    /\ UNCHANGED <<prevret, nrev, arcs0, outval, earlier>>
    /\ UNCHANGED entered

\* solve, line 94: return self.backtrack(dict()), whatever ac3 returned
SolveBacktrack ==
    /\ pc = "solve_bt"
    /\ assignment' = EmptyAssignment
    /\ stack' = <<>>
    /\ caller' = "solve"
    /\ btcalls' = btcalls + 1
    /\ last' = Call("backtrack", None, None, NoArcs, "unset")
    /\ prev' = last.op
    /\ dom0' = domains
    /\ pc' = "bt_call"
    /\ UNCHANGED <<variables, words, varorder, domains, arcs, ac3ret, ret,
                   result>>
    /\ prevret' = last.ret
    /\ entered' = <<>>
    /\ UNCHANGED <<nrev, arcs0, outval, earlier>>

\* backtrack, lines 318-323: return a complete assignment, or select a
\* variable and order its values
BtCall ==
    /\ pc = "bt_call"
    /\ IF AssignmentComplete(domains, assignment)
       THEN /\ ret' = ReturnValue(assignment)
            /\ pc' = "bt_return"
            /\ UNCHANGED stack
       ELSE /\ \E var \in {SelectUnassignedVariable(variables, domains,
                                                     varorder, assignment)} :
                    \E values \in OrderDomainValues(variables, domains, var,
                                                   assignment) :
                       stack' = Append(stack, [var |-> var, values |-> values,
                                               k |-> 1])
            /\ pc' = "bt_loop"
            /\ UNCHANGED ret
    /\ UNCHANGED <<variables, words, varorder, domains, caller, arcs, ac3ret,
                   assignment, result, last, prev, dom0, btcalls>>
    /\ entered' = Append(entered, assignment)
    /\ UNCHANGED <<prevret, nrev, arcs0, outval, earlier>>

\* (changed: the domain of the variable is cut down to the value tried)
BtLoopPrune ==
    /\ pc = "bt_loop"
    /\ LET frame == stack[Len(stack)]
       IN  IF frame.k <= Len(frame.values)
           THEN /\ assignment' = Update(assignment, frame.var,
                                        frame.values[frame.k])
                /\ domains' = [domains EXCEPT
                                  ![frame.var] = {frame.values[frame.k]}]
                /\ pc' = "bt_check"
                /\ UNCHANGED <<stack, ret>>
           ELSE /\ stack' = SubSeq(stack, 1, Len(stack) - 1)
                /\ ret' = ReturnNone
                /\ pc' = "bt_return"
                /\ UNCHANGED <<assignment, domains>>
    /\ UNCHANGED <<variables, words, varorder, caller, arcs, ac3ret,
                   result, last, prev, dom0, btcalls>>
    /\ UNCHANGED <<prevret, nrev, arcs0, outval, earlier>>
    /\ UNCHANGED entered

\* backtrack, lines 323-325 and 336: take the next value and put it in the
\* assignment, or return None when the values are used up
BtLoop ==
    /\ pc = "bt_loop"
    /\ LET frame == stack[Len(stack)]
       IN  IF frame.k <= Len(frame.values)
           THEN /\ assignment' = Update(assignment, frame.var,
                                        frame.values[frame.k])
                /\ pc' = "bt_check"
                /\ UNCHANGED <<stack, ret>>
           ELSE /\ stack' = SubSeq(stack, 1, Len(stack) - 1)
                /\ ret' = ReturnNone
                /\ pc' = "bt_return"
                /\ UNCHANGED assignment
    /\ UNCHANGED <<variables, words, varorder, domains, caller, arcs, ac3ret,
                   result, last, prev, dom0, btcalls>>
    /\ UNCHANGED <<prevret, nrev, arcs0, outval, earlier>>
    /\ UNCHANGED entered

\* backtrack, lines 327-329: recurse when the assignment is consistent
BtCheck ==
    /\ pc = "bt_check"
    /\ \E keys \in {KeysOf(stack)} :
          \E outcome \in Consistent(variables, assignment, keys) :
             pc' = CASE outcome = "True" -> "bt_call"
                     [] outcome = "False" -> "bt_undo"
                     [] OTHER -> "raised"
    /\ UNCHANGED <<variables, words, varorder, domains, caller, arcs, ac3ret,
                   assignment, stack, ret, result, last, prev, dom0, btcalls>>
    /\ UNCHANGED <<prevret, nrev, arcs0, outval, earlier>>
    /\ UNCHANGED entered

\* (changed: after the undo the same value is taken again)
BtUndoRetry ==
    /\ pc = "bt_undo"
    /\ LET frame == stack[Len(stack)]
       IN  assignment' = Pop(assignment, frame.var)
    /\ pc' = "bt_loop"
    /\ UNCHANGED <<variables, words, varorder, domains, caller, arcs, ac3ret,
                   ret, result, last, prev, dom0, btcalls, stack>>
    /\ UNCHANGED <<prevret, nrev, arcs0, outval, earlier>>
    /\ UNCHANGED entered

\* (changed: the binding of the last value tried is left in the assignment)
BtUndoLeaveLast ==
    /\ pc = "bt_undo"
    /\ LET frame == stack[Len(stack)]
       IN  /\ assignment' = IF frame.k < Len(frame.values)
                             THEN Pop(assignment, frame.var)
                             ELSE assignment
           /\ stack' = [stack EXCEPT ![Len(stack)].k = frame.k + 1]
    /\ pc' = "bt_loop"
    /\ UNCHANGED <<variables, words, varorder, domains, caller, arcs, ac3ret,
                   ret, result, last, prev, dom0, btcalls>>
    /\ UNCHANGED <<prevret, nrev, arcs0, outval, earlier>>
    /\ UNCHANGED entered

\* (changed: the binding is left in the assignment)
BtUndoKeep ==
    /\ pc = "bt_undo"
    /\ LET frame == stack[Len(stack)]
       IN  stack' = [stack EXCEPT ![Len(stack)].k = frame.k + 1]
    /\ pc' = "bt_loop"
    /\ UNCHANGED <<variables, words, varorder, domains, caller, arcs, ac3ret,
                   ret, result, last, prev, dom0, btcalls, assignment>>
    /\ UNCHANGED <<prevret, nrev, arcs0, outval, earlier>>
    /\ UNCHANGED entered

\* backtrack, line 333: assignment.pop(var), and on to the next value
BtUndo ==
    /\ pc = "bt_undo"
    /\ LET frame == stack[Len(stack)]
       IN  /\ assignment' = Pop(assignment, frame.var)
           /\ stack' = [stack EXCEPT ![Len(stack)].k = frame.k + 1]
    /\ pc' = "bt_loop"
    /\ UNCHANGED <<variables, words, varorder, domains, caller, arcs, ac3ret,
                   ret, result, last, prev, dom0, btcalls>>
    /\ UNCHANGED <<prevret, nrev, arcs0, outval, earlier>>
    /\ UNCHANGED entered

\* Where the outermost backtrack call returns to.
AfterBacktrack == IF caller = "solve" THEN "done" ELSE "idle"

\* A backtrack call has returned ret: to the caller's line 330 (return it if
\* it is truthy, else undo), or to solve(), which returns it.
BtReturn ==
    /\ pc = "bt_return"
    /\ IF stack = <<>>
       THEN /\ pc' = AfterBacktrack
            /\ result' = IF caller = "solve" THEN ret ELSE result
            /\ last' = [last EXCEPT !.ret = IF ret.none THEN "None"
                                                         ELSE "assignment"]
            /\ UNCHANGED stack
       ELSE /\ IF Truthy(ret)
               THEN /\ stack' = SubSeq(stack, 1, Len(stack) - 1)
                    /\ pc' = "bt_return"
               ELSE /\ pc' = "bt_undo"
                    /\ UNCHANGED stack
            /\ UNCHANGED <<result, last>>
    /\ UNCHANGED <<variables, words, varorder, domains, caller, arcs, ac3ret,
                   assignment, ret, prev, dom0, btcalls>>
    /\ entered' = SubSeq(entered, 1, Len(entered) - 1)
    /\ UNCHANGED <<prevret, nrev, arcs0, outval, earlier>>

Next ==
    \/ SolveEnforce
    \/ SolveAc3
    \/ Ac3Step
    \/ Ac3Exit
    \/ SolveBacktrack
    \/ BtCall
    \/ BtLoop
    \/ BtCheck
    \/ BtUndo
    \/ BtReturn

Spec == Init /\ [][Next]_vars

\* The search is run to its end, self.domains in one order: nothing suspends
\* a call of backtrack in progress.
InitOne == Init /\ varorder = CHOOSE order \in Orderings(variables) : TRUE

\* The steps of backtrack.
BtNext ==
    \/ BtCall
    \/ BtLoop
    \/ BtCheck
    \/ BtUndo
    \/ BtReturn

SpecFair == InitOne /\ [][Next]_vars /\ WF_vars(BtNext)

----------------------------------------------------------------------------
(* The program run twice on one grid and one dictionary. Each run is a new   *)
(* process: the sets of variables and words are built again, and their       *)
(* iteration orders are whatever that process's hashing gives.               *)

\* main() is started again after a first run has ended.
Rerun ==
    /\ pc = "done"
    /\ ~earlier.ran
    /\ earlier' = Ran(result)
    /\ varorder' \in Orderings(variables)
    /\ domains' = InitDomains(variables, words)
    /\ pc' = "solve"
    /\ caller' = "solve"
    /\ arcs' = <<>>
    /\ ac3ret' = "unset"
    /\ assignment' = EmptyAssignment
    /\ stack' = <<>>
    /\ ret' = ReturnNone
    /\ result' = ReturnNone
    /\ last' = NoCall
    /\ prev' = "none"
    /\ dom0' = domains'
    /\ btcalls' = 0
    /\ prevret' = "unset"
    /\ nrev' = 0
    /\ arcs0' = <<>>
    /\ entered' = <<>>
    /\ UNCHANGED <<variables, words, outval>>

NextTwice ==
    \/ Next
    \/ Rerun

SpecTwice == Init /\ [][NextTwice]_vars

----------------------------------------------------------------------------
(* enforce_node_consistency and revise called one at a time, in any order   *)
(* and on any pair of variables, on a fresh CrosswordCreator, as a test of  *)
(* the class does. revise indexes the words at the overlap, so it is called *)
(* on overlapping variables once the domains are node consistent, as        *)
(* solve() does. Neither method reads the order of self.domains.            *)

InitApi ==
    /\ variables \in Grids
    /\ words \in Dictionaries
    /\ varorder = CHOOSE order \in Orderings(variables) : TRUE
    /\ domains = InitDomains(variables, words)
    /\ pc = "idle"
    /\ caller = "api"
    /\ arcs = <<>>
    /\ ac3ret = "unset"
    /\ assignment = EmptyAssignment
    /\ stack = <<>>
    /\ ret = ReturnNone
    /\ result = ReturnNone
    /\ last = NoCall
    /\ prev = "none"
    /\ dom0 = domains
    /\ btcalls = 0
    /\ prevret = "unset"
    /\ nrev = 0
    /\ arcs0 = <<>>
    /\ outval = None
    /\ earlier = NoRun
    /\ entered = <<>>

\* creator.enforce_node_consistency()
ApiEnforce ==
    /\ pc = "idle"
    /\ domains' = EnforceNodeConsistency(domains)
    /\ last' = Call("enforce_node_consistency", None, None, NoArcs, "None")
    /\ prev' = last.op
    /\ dom0' = domains
    /\ UNCHANGED <<variables, words, varorder, pc, caller, arcs, ac3ret,
                   assignment, stack, ret, result, btcalls>>
    /\ prevret' = last.ret
    /\ UNCHANGED <<nrev, arcs0, outval, earlier>>
    /\ UNCHANGED entered

\* creator.revise(x, y)
ApiRevise ==
    /\ pc = "idle"
    /\ \E x, y \in variables :
          /\ NodeConsistent(domains) \/ Overlaps(x, y) = None
          /\ LET r == Revise(domains, x, y)
             IN  /\ domains' = r.domains
                 /\ last' = Call("revise", x, y, NoArcs,
                                 IF r.revision THEN "True" ELSE "False")
    /\ prev' = last.op
    /\ dom0' = domains
    /\ UNCHANGED <<variables, words, varorder, pc, caller, arcs, ac3ret,
                   assignment, stack, ret, result, btcalls>>
    /\ prevret' = last.ret
    /\ UNCHANGED <<nrev, arcs0, outval, earlier>>
    /\ UNCHANGED entered

NextApi ==
    \/ ApiEnforce
    \/ ApiRevise

SpecApi == InitApi /\ [][NextApi]_vars

----------------------------------------------------------------------------
(* ac3 called on a CrosswordCreator whose domains are node consistent:       *)
(* ac3() once or twice in succession, or ac3(arcs) with an explicit list of  *)
(* arcs once.                                                                *)

\* Longest explicit list of arcs handed to ac3.
MaxArcs == 1

\* The lists of arcs a caller may hand to ac3: pairs of variables.
ArcLists ==
    UNION {[1..n -> variables \X variables] : n \in 0..MaxArcs}

\* ac3, lines 163-170: the work list the loop starts from. `not arcs` holds
\* for None and for the empty list alike.
StartArcs(V, order, given) ==
    IF given.none \/ given.list = <<>>
    THEN InitialArcs(V, order, Len(order))
    ELSE {given.list}

InitAc3 ==
    /\ variables \in Grids
    /\ words \in Dictionaries
    /\ varorder \in Orderings(variables)
    /\ domains = InitDomains(variables, words)
    /\ pc = "idle"
    /\ caller = "api"
    /\ arcs = <<>>
    /\ ac3ret = "unset"
    /\ assignment = EmptyAssignment
    /\ stack = <<>>
    /\ ret = ReturnNone
    /\ result = ReturnNone
    /\ last = NoCall
    /\ prev = "none"
    /\ dom0 = domains
    /\ btcalls = 0
    /\ prevret = "unset"
    /\ nrev = 0
    /\ arcs0 = <<>>
    /\ outval = None
    /\ earlier = NoRun
    /\ entered = <<>>

\* creator.enforce_node_consistency() on the fresh creator
Ac3Enforce ==
    /\ pc = "idle"
    /\ last = NoCall
    /\ domains' = EnforceNodeConsistency(domains)
    /\ last' = Call("enforce_node_consistency", None, None, NoArcs, "None")
    /\ prev' = last.op
    /\ prevret' = last.ret
    /\ dom0' = domains
    /\ UNCHANGED <<variables, words, varorder, pc, caller, arcs, ac3ret,
                   assignment, stack, ret, result, btcalls, nrev, arcs0,
                   outval, earlier>>
    /\ UNCHANGED entered

\* creator.ac3(given), lines 163-170
Ac3Begin(given) ==
    /\ pc = "idle"
    /\ NodeConsistent(domains)
    /\ arcs' \in StartArcs(variables, varorder, given)
    /\ arcs0' = arcs'
    /\ nrev' = 0
    /\ caller' = "api"
    /\ ac3ret' = "unset"
    /\ last' = Call("ac3", None, None, given, "unset")
    /\ prev' = last.op
    /\ prevret' = last.ret
    /\ dom0' = domains
    /\ pc' = "ac3_loop"
    /\ UNCHANGED <<variables, words, varorder, domains, assignment, stack,
                   ret, result, btcalls, outval, earlier>>
    /\ UNCHANGED entered

\* creator.ac3(), the first call of ac3
Ac3Call == last.op # "ac3" /\ Ac3Begin(NoArcs)

\* creator.ac3(arcs), the first call of ac3
Ac3CallArcs == last.op # "ac3" /\ \E list \in ArcLists : Ac3Begin(ArcList(list))

\* creator.ac3() again, right after a first creator.ac3()
Ac3Again ==
    /\ last.op = "ac3"
    /\ last.arcs.none
    /\ prev # "ac3"
    /\ Ac3Begin(NoArcs)

NextAc3 ==
    \/ Ac3Enforce
    \/ Ac3Call
    \/ Ac3CallArcs
    \/ Ac3Again
    \/ Ac3Step
    \/ Ac3Exit

SpecAc3 == InitAc3 /\ [][NextAc3]_vars

\* One call of ac3 on the node-consistent domains, self.domains in one order.
NextAc3Once ==
    \/ Ac3Enforce
    \/ Ac3Call
    \/ Ac3CallArcs
    \/ Ac3Step
    \/ Ac3Exit

\* The loop of ac3 is run to its end: nothing suspends a call in progress.
SpecAc3Fair ==
    InitApi /\ [][NextAc3Once]_vars /\ WF_vars(Ac3Step) /\ WF_vars(Ac3Exit)

----------------------------------------------------------------------------
(* consistent called on a CrosswordCreator with any assignment of dictionary *)
(* words to some of the variables, its keys in any order. The method reads   *)
(* the grid and the assignment only and changes nothing: one call is made.   *)

\* The assignments a caller may hand over: a word for each of some variables.
Assignments(V, W) == UNION {[S -> W] : S \in SUBSET V}

\* creator.consistent(a)
FnConsistent ==
    /\ pc = "idle"
    /\ last = NoCall
    /\ \E a \in Assignments(variables, words) :
          \E keys \in Orderings(DOMAIN a) :
             \E outcome \in Consistent(variables, a, keys) :
                /\ assignment' = a
                /\ last' = Call("consistent", None, None, NoArcs, outcome)
    /\ prev' = last.op
    /\ prevret' = last.ret
    /\ UNCHANGED <<variables, words, varorder, domains, pc, caller, arcs,
                   ac3ret, stack, ret, result, dom0, btcalls, nrev, arcs0,
                   outval, earlier>>
    /\ UNCHANGED entered

NextConsistent == FnConsistent

SpecConsistent == InitApi /\ [][NextConsistent]_vars

----------------------------------------------------------------------------
(* select_unassigned_variable called once with an incomplete assignment, on  *)
(* the domains as __init__, enforce_node_consistency or ac3() left them.     *)

\* The assignments backtrack can hold: a word of its domain for each of some
\* variables, but not for all of them.
IncompleteAssignments(doms) ==
    {a \in Assignments(DOMAIN doms, UNION {doms[v] : v \in DOMAIN doms}) :
        /\ DOMAIN a # DOMAIN doms
        /\ \A v \in DOMAIN a : a[v] \in doms[v]}

\* creator.select_unassigned_variable(a)
FnSelect ==
    /\ pc = "idle"
    /\ \E a \in IncompleteAssignments(domains) :
          /\ assignment' = a
          /\ outval' = SelectUnassignedVariable(variables, domains, varorder, a)
    /\ last' = Call("select_unassigned_variable", None, None, NoArcs,
                    "variable")
    /\ prev' = last.op
    /\ prevret' = last.ret
    /\ dom0' = domains
    /\ pc' = "returned"
    /\ UNCHANGED <<variables, words, varorder, domains, caller, arcs, ac3ret,
                   stack, ret, result, btcalls, nrev, arcs0, earlier>>
    /\ UNCHANGED entered

NextSelect ==
    \/ Ac3Enforce
    \/ Ac3Call
    \/ Ac3Step
    \/ Ac3Exit
    \/ FnSelect

SpecSelect == InitAc3 /\ [][NextSelect]_vars

----------------------------------------------------------------------------
(* order_domain_values called once with a variable and an assignment that   *)
(* leaves it out, on the domains as __init__, enforce_node_consistency or    *)
(* ac3() left them. The method does not read the order of self.domains.      *)

\* A grid whose slots all have one length: an across slot crossing two down
\* slots at their second cells.
GridComb == {Variable(1, 0, ACROSS, 3), Variable(0, 0, DOWN, 3),
             Variable(0, 2, DOWN, 3)}

InitOrder ==
    /\ variables \in Grids \cup {GridComb}
    /\ words \in Dictionaries
    /\ varorder = CHOOSE order \in Orderings(variables) : TRUE
    /\ domains = InitDomains(variables, words)
    /\ pc = "idle"
    /\ caller = "api"
    /\ arcs = <<>>
    /\ ac3ret = "unset"
    /\ assignment = EmptyAssignment
    /\ stack = <<>>
    /\ ret = ReturnNone
    /\ result = ReturnNone
    /\ last = NoCall
    /\ prev = "none"
    /\ dom0 = domains
    /\ btcalls = 0
    /\ prevret = "unset"
    /\ nrev = 0
    /\ arcs0 = <<>>
    /\ outval = None
    /\ earlier = NoRun
    /\ entered = <<>>

\* creator.order_domain_values(var, a)
FnOrder ==
    /\ pc = "idle"
    /\ \E a \in IncompleteAssignments(domains) :
          \E var \in variables \ DOMAIN a :
             /\ assignment' = a
             /\ outval' \in OrderDomainValues(variables, domains, var, a)
             /\ last' = Call("order_domain_values", var, None, NoArcs, "list")
    /\ prev' = last.op
    /\ prevret' = last.ret
    /\ dom0' = domains
    /\ pc' = "returned"
    /\ UNCHANGED <<variables, words, varorder, domains, caller, arcs, ac3ret,
                   stack, ret, result, btcalls, nrev, arcs0, earlier>>
    /\ UNCHANGED entered

NextOrder ==
    \/ Ac3Enforce
    \/ Ac3Call
    \/ Ac3Step
    \/ Ac3Exit
    \/ FnOrder

SpecOrder == InitOrder /\ [][NextOrder]_vars

----------------------------------------------------------------------------
(* Properties *)

\* An assignment gives every variable a word of its length.
RightLengths(f) == \A v \in DOMAIN f : Len(f[v]) = v.length

\* No two variables of an assignment share a word.
DistinctWords(f) == \A x, y \in DOMAIN f : x # y => f[x] # f[y]

\* Every two overlapping variables of an assignment agree at the overlap.
AgreesAtOverlaps(f) ==
    \A x, y \in DOMAIN f :
        Overlaps(x, y) # None =>
            /\ Overlaps(x, y)[1] < Len(f[x])
            /\ Overlaps(x, y)[2] < Len(f[y])
            /\ f[x][Overlaps(x, y)[1] + 1] = f[y][Overlaps(x, y)[2] + 1]

\* The complete assignments of one word of doms[v] to every variable v.
CompleteAssignments(doms) ==
    {f \in [variables -> words] : \A v \in variables : f[v] \in doms[v]}

\* The complete consistent assignments of dictionary words.
Solutions ==
    {f \in [variables -> words] :
        RightLengths(f) /\ DistinctWords(f) /\ AgreesAtOverlaps(f)}

\* The domains node consistency leaves from the dictionary.
RightLengthWords == [v \in variables |-> {w \in words : Len(w) = v.length}]

\* C1: an assignment returned by solve() binds every variable to a
\* dictionary word of the variable's length, uses no word twice and agrees
\* at every overlap.
C1_ReturnedAssignmentValid ==
    (pc = "done" /\ ~result.none) =>
        /\ DOMAIN result.val = variables
        /\ \A v \in variables : result.val[v] \in words
        /\ RightLengths(result.val)
        /\ DistinctWords(result.val)
        /\ AgreesAtOverlaps(result.val)

C1_Witness ==
    /\ pc = "done"
    /\ ~result.none
    /\ variables = GridChain

\* C2: solve() returns None only when no complete consistent assignment of
\* dictionary words exists, whatever the iteration orders were.
C2_SolveComplete == (pc = "done" /\ result.none) => Solutions = {}

C2_Witness ==
    /\ pc = "done"
    /\ ~result.none
    /\ Solutions # {}
    /\ Cardinality(variables) = 3
    /\ domains # RightLengthWords

\* C3: solve() calls backtrack only after ac3 has returned True on domains
\* that node consistency left non-empty.
C3_BacktrackOnlyAfterAc3Success ==
    btcalls > 0 =>
        /\ ac3ret = "True"
        /\ \A v \in variables : RightLengthWords[v] # {}

\* C4: enforce_node_consistency leaves in every domain exactly the words of
\* the previous domain that have the variable's length.
C4_NodeConsistencyExact ==
    Returned("enforce_node_consistency") =>
        \A v \in variables :
            domains[v] = {w \in dom0[v] : Len(w) = v.length}

C4_Witness ==
    /\ Returned("enforce_node_consistency")
    /\ \E v \in variables : domains[v] # dom0[v] /\ domains[v] # {}
    /\ \E v \in variables : \E w \in dom0[v] : Len(w) > v.length

\* C5: a second enforce_node_consistency right after a first one changes no
\* domain.
C5_NodeConsistencyIdempotent ==
    (Returned("enforce_node_consistency") /\ prev = "enforce_node_consistency")
        => domains = dom0

C5_Witness ==
    /\ Returned("enforce_node_consistency")
    /\ prev = "enforce_node_consistency"
    /\ \E v \in variables : Cardinality(words \ domains[v]) >= 2

\* C6: on overlapping variables, revise(x, y) removes from x's domain exactly
\* the words no word of y's domain matches at the overlap, changes no other
\* domain, and returns True exactly when it removed a word.
C6_ReviseExact ==
    (Returned("revise") /\ Overlaps(last.x, last.y) # None) =>
        LET x == last.x
            y == last.y
            ix == Overlaps(x, y)[1]
            iy == Overlaps(x, y)[2]
        IN  /\ domains[x] = {w \in dom0[x] :
                               \E u \in dom0[y] : u[iy + 1] = w[ix + 1]}
            /\ \A v \in variables \ {x} : domains[v] = dom0[v]
            /\ (last.ret = "True") <=> (domains[x] # dom0[x])

C6_Witness ==
    /\ Returned("revise")
    /\ Overlaps(last.x, last.y) # None
    /\ last.ret = "True"
    /\ domains[last.x] # {}
    /\ Cardinality(domains[last.y]) >= 2

\* C7: on variables without an overlap, revise(x, y) returns False and
\* changes no domain.
C7_ReviseNoOverlap ==
    (Returned("revise") /\ Overlaps(last.x, last.y) = None) =>
        /\ last.ret = "False"
        /\ domains = dom0

C7_Witness ==
    /\ Returned("revise")
    /\ last.x # last.y
    /\ Overlaps(last.x, last.y) = None
    /\ domains[last.x] # {}
    /\ domains[last.y] # {}
    /\ \A w \in domains[last.x] : \A u \in domains[last.y] : w[1] # u[1]

\* C8: ac3 returns True only if no domain is empty when it returns.
C8_Ac3TrueNoEmptyDomain ==
    (Returned("ac3") /\ last.ret = "True") =>
        \A v \in variables : domains[v] # {}

\* C9: when ac3() returns True, every word of every domain has a matching
\* word in the domain of every overlapping variable.
C9_ArcConsistent ==
    (Returned("ac3") /\ last.ret = "True") =>
        \A x, y \in variables :
            Overlaps(x, y) # None =>
                \A w \in domains[x] : \E u \in domains[y] :
                    w[Overlaps(x, y)[1] + 1] = u[Overlaps(x, y)[2] + 1]

C9_Witness ==
    /\ Returned("ac3")
    /\ last.ret = "True"
    /\ Cardinality(variables) = 3
    /\ Cardinality({v \in variables : domains[v] # dom0[v]}) >= 2
    /\ \A v \in variables : domains[v] # {}

\* C10: when ac3() returns False, no choice of one word per variable from
\* the domains it was called on agrees at every overlap.
C10_Ac3FailureSound ==
    (Returned("ac3") /\ last.ret = "False") =>
        \A f \in CompleteAssignments(dom0) : ~AgreesAtOverlaps(f)

C10_Witness ==
    /\ Returned("ac3")
    /\ last.ret = "False"
    /\ CompleteAssignments(dom0) # {}
    /\ \E v \in variables : domains[v] # {} /\ domains[v] # dom0[v]

\* The number of words in all the domains together.
RECURSIVE TotalWords(_, _)
TotalWords(doms, V) ==
    IF V = {} THEN 0
    ELSE LET v == CHOOSE v \in V : TRUE
         IN  Cardinality(doms[v]) + TotalWords(doms, V \ {v})

\* Every ordered pair of distinct variables that are neighbors.
AllArcs == {<<x, y>> \in variables \X variables : x # y /\ Overlaps(x, y) # None}

\* C11 (as stated): on node-consistent domains, a second ac3() right after a
\* first ac3() changes no domain, whatever the first call returned.
C11_Ac3Idempotent ==
    (Returned("ac3") /\ prev = "ac3") => domains = dom0

\* C11 (amended): on node-consistent domains, a second ac3() right after a
\* first ac3() that returned True changes no domain at any point.
C11_Ac3IdempotentAfterTrue ==
    (last.op = "ac3" /\ prev = "ac3" /\ prevret = "True") => domains = dom0

C11_Witness ==
    /\ Returned("ac3")
    /\ prev = "ac3"
    /\ prevret = "True"
    /\ domains # RightLengthWords
    /\ Cardinality(variables) = 3
    /\ \A v \in variables : domains[v] # {}

\* C12: every call of ac3, on any list of arcs, comes to an end, and makes
\* no more revisions than there were words in all the domains it started
\* from.
C12_Ac3Terminates ==
    /\ [](nrev <= TotalWords(dom0, variables))
    /\ (pc = "ac3_loop") ~> (pc = "idle")

C12_Witness ==
    /\ Returned("ac3")
    /\ last.ret = "True"
    /\ nrev >= 2
    /\ Len(arcs0) >= 4
    /\ \A v \in variables : domains[v] # {}

\* C13: the work list ac3 starts from is every ordered pair of neighbors when
\* no list is given, and exactly the given list when one is given, the empty
\* list included.
C13_InitialWorkQueue ==
    last.op = "ac3" =>
        IF last.arcs.none
        THEN /\ Range(arcs0) = AllArcs
             /\ Len(arcs0) = Cardinality(AllArcs)
        ELSE arcs0 = last.arcs.list

\* C14: consistent(assignment) returns True exactly when every assigned word
\* has its variable's length, no word is assigned twice and the words of
\* every two overlapping assigned variables agree at the overlap.
C14_ConsistentExact ==
    Returned("consistent") =>
        ((last.ret = "True") <=>
            /\ RightLengths(assignment)
            /\ DistinctWords(assignment)
            /\ AgreesAtOverlaps(assignment))

C14_Witness ==
    /\ Returned("consistent")
    /\ last.ret = "True"
    /\ variables = GridChain
    /\ DOMAIN assignment = variables

\* The unassigned variables and the degree of a variable.
Unassigned == variables \ DOMAIN assignment
Degree(v) == Cardinality({u \in variables : u # v /\ Overlaps(u, v) # None})

\* C15: for an incomplete assignment select_unassigned_variable returns an
\* unassigned variable whose domain is the smallest among the unassigned
\* ones and whose degree is the largest among the unassigned variables with
\* a domain of that size.
C15_SelectMrvDegree ==
    Returned("select_unassigned_variable") =>
        /\ outval \in Unassigned
        /\ \A u \in Unassigned :
              /\ Cardinality(domains[outval]) <= Cardinality(domains[u])
              /\ Cardinality(domains[u]) = Cardinality(domains[outval])
                    => Degree(u) <= Degree(outval)

C15_Witness ==
    /\ Returned("select_unassigned_variable")
    /\ Cardinality(Unassigned) = 3
    /\ varorder[1] # outval
    /\ Cardinality(domains[varorder[1]]) = Cardinality(domains[outval])
    /\ Degree(varorder[1]) < Degree(outval)
    /\ \E u \in Unassigned :
          Cardinality(domains[u]) > Cardinality(domains[outval])

\* The score of a word for a variable: the unassigned neighbors of the
\* variable whose domain holds the word.
Score(var, word) ==
    Cardinality({n \in variables \ DOMAIN assignment :
                    /\ n # var
                    /\ Overlaps(n, var) # None
                    /\ word \in domains[n]})

\* C16: order_domain_values(var, assignment) returns every word of var's
\* domain exactly once, in ascending order of the number of unassigned
\* neighbors of var whose domain holds the word.
C16_OrderByUnassignedScore ==
    Returned("order_domain_values") =>
        /\ Range(outval) = domains[last.x]
        /\ Len(outval) = Cardinality(domains[last.x])
        /\ \A m, n \in 1..Len(outval) :
              m < n => Score(last.x, outval[m]) <= Score(last.x, outval[n])

\* C17 (as stated): two runs of solve() on one grid and one dictionary
\* return the same result.
C17_SolveDeterministic ==
    (pc = "done" /\ earlier.ran) => result = earlier.result

\* C17 (amended): two runs of solve() on one grid and one dictionary both
\* return None or both return an assignment.
C17_SolveSameOutcome ==
    (pc = "done" /\ earlier.ran) => result.none = earlier.result.none

C17_Witness ==
    /\ pc = "done"
    /\ earlier.ran
    /\ ~result.none
    /\ result # earlier.result
    /\ Cardinality(variables) = 3

\* The arcs on the work list after a step beyond the first n of them.
Added(n) == [k \in 1..(Len(arcs') - n) |-> arcs'[n + k]]

\* C18: a turn of ac3's loop on the arc (x, y) takes that arc off the work
\* list and appends: when a word of x was removed and x's domain is not
\* empty, the arc (z, x) of every neighbor z of x other than y, each once;
\* when no word was removed, nothing.
C18_Requeue ==
    [][(pc = "ac3_loop" /\ arcs # <<>>) =>
          LET x == arcs[Len(arcs)][1]
              y == arcs[Len(arcs)][2]
              n == Len(arcs) - 1
              others == {z \in variables :
                            z # x /\ z # y /\ Overlaps(z, x) # None}
          IN  /\ Len(arcs') >= n
              /\ \A k \in 1..n : arcs'[k] = arcs[k]
              /\ (domains'[x] # domains[x] /\ domains'[x] # {}) =>
                    /\ Range(Added(n)) = {<<z, x>> : z \in others}
                    /\ Len(Added(n)) = Cardinality(others)
              /\ domains'[x] = domains[x] => Len(arcs') = n]_vars

C18_Witness ==
    /\ pc = "ac3_loop"
    /\ nrev >= 1
    /\ arcs # <<>>
    /\ Len(arcs) > Len(arcs0) \/ arcs # SubSeq(arcs0, 1, Len(arcs))
    /\ \A v \in variables : domains[v] # {}

\* C19: the turn of ac3's loop in which revise removes the last word of x's
\* domain ends the call with False, and once ac3 has returned False the work
\* list and the domains stay as they are.
C19_FailFast ==
    [][/\ (pc = "ac3_loop" /\ arcs # <<>>) =>
             LET x == arcs[Len(arcs)][1]
             IN  (domains[x] # {} /\ domains'[x] = {}) =>
                    /\ pc' # "ac3_loop"
                    /\ ac3ret' = "False"
                    /\ last'.ret = "False"
       /\ ac3ret = "False" =>
             /\ pc # "ac3_loop"
             /\ arcs' = arcs
             /\ domains' = domains]_vars

C19_Witness ==
    /\ pc = "done"
    /\ ac3ret = "False"
    /\ arcs # <<>>
    /\ \E v \in variables : domains[v] # {} /\ domains[v] # RightLengthWords[v]

\* The assignment after a step is the one before it but for variable v.
SameBut(v) ==
    \A u \in (DOMAIN assignment \cup DOMAIN assignment') \ {v} :
        /\ u \in DOMAIN assignment
        /\ u \in DOMAIN assignment'
        /\ assignment'[u] = assignment[u]

\* C20: every step of backtrack that changes the assignment either adds the
\* binding of one variable that had none, or removes the binding added last,
\* and leaves every other binding as it was; each descent does the first and
\* each undo the second.
C20_OneEntryPerStep ==
    [][/\ assignment' # assignment =>
             \/ \E v \in variables \ DOMAIN assignment :
                   /\ v \in DOMAIN assignment'
                   /\ SameBut(v)
             \/ /\ stack # <<>>
                /\ LET v == stack[Len(stack)].var
                   IN  /\ v \in DOMAIN assignment
                       /\ v \notin DOMAIN assignment'
                       /\ SameBut(v)
       /\ (pc = "bt_loop" /\ pc' = "bt_check") =>
             Cardinality(DOMAIN assignment') = Cardinality(DOMAIN assignment) + 1
       /\ pc = "bt_undo" =>
             Cardinality(DOMAIN assignment') = Cardinality(DOMAIN assignment) - 1
      ]_vars

C20_Witness ==
    /\ pc = "bt_check"
    /\ Len(stack) >= 2
    /\ stack[Len(stack)].k >= 2
    /\ Cardinality(DOMAIN assignment) = Len(stack)

\* C21: when a call of backtrack returns None the assignment is the one the
\* call started with, and when solve() returns None the assignment is empty.
C21_FailureRestores ==
    /\ (pc = "bt_return" /\ ret.none) => assignment = entered[Len(entered)]
    /\ (pc = "done" /\ result.none) => assignment = EmptyAssignment

C21_Witness ==
    /\ pc = "bt_return"
    /\ ret.none
    /\ Len(entered) >= 2
    /\ entered[Len(entered)] # EmptyAssignment
    /\ stack[Len(stack)].k >= 2

\* C22: every assignment backtrack is called on in a run of solve() gives
\* each assigned variable a word of its length, gives no word to two
\* variables, and agrees at every overlap of two assigned variables.
C22_CalledOnValid ==
    pc = "bt_call" =>
        /\ RightLengths(assignment)
        /\ DistinctWords(assignment)
        /\ AgreesAtOverlaps(assignment)

C22_Witness ==
    /\ pc = "bt_call"
    /\ Cardinality(DOMAIN assignment) = 2
    /\ Cardinality(variables) = 3
    /\ \E x, y \in DOMAIN assignment : Overlaps(x, y) # None

\* The positions of the running call inside backtrack.
InBacktrack == pc \in {"bt_call", "bt_loop", "bt_check", "bt_undo", "bt_return"}

\* C23: in every step of solve() each domain stays within what it was before
\* the step, and the steps of backtrack leave the domains as they are.
C23_DomainsOnlyShrink ==
    [][/\ \A v \in variables : domains'[v] \subseteq domains[v]
       /\ DOMAIN domains' = DOMAIN domains
       /\ InBacktrack => domains' = domains]_vars

C23_Witness ==
    /\ pc = "bt_undo"
    /\ nrev >= 1
    /\ Len(stack) >= 2
    /\ \E v \in variables : domains[v] # {} /\ domains[v] # RightLengthWords[v]
    /\ \E v \in variables : RightLengthWords[v] # words

\* The calls of backtrack nested inside the one solve() made.
RecursionDepth == Len(entered) - 1

\* C24: the search solve() starts from the empty assignment comes to an end,
\* with a complete assignment or with None, and the calls of backtrack
\* nested inside the first one never number more than the variables.
C24_BacktrackTerminates ==
    /\ [](RecursionDepth <= Cardinality(variables))
    /\ (btcalls > 0) ~>
          (pc = "done" /\ (result.none \/ DOMAIN result.val = variables))

C24_Witness ==
    /\ pc = "bt_return"
    /\ ~ret.none
    /\ RecursionDepth = 3
    /\ \E n \in 1..Len(stack) : stack[n].k >= 2

\* The complete consistent assignments that take every word from doms.
ValidIn(doms) ==
    {f \in CompleteAssignments(doms) :
        RightLengths(f) /\ DistinctWords(f) /\ AgreesAtOverlaps(f)}

\* C25: every complete consistent assignment that takes its words from the
\* domains before a revise still finds them in the domains after it, and one
\* that takes them from the domains ac3 was called on still finds them in
\* the domains while ac3 runs and when it returns, True or False.
C25_PruningKeepsSolutions ==
    [][/\ \A f \in ValidIn(domains) :
             \A v \in variables : f[v] \in domains'[v]
       /\ last'.op = "ac3" =>
             \A f \in ValidIn(dom0') :
                \A v \in variables : f[v] \in domains'[v]]_vars

C25_Witness ==
    /\ Returned("ac3")
    /\ nrev >= 2
    /\ Cardinality(variables) = 3
    /\ ValidIn(dom0) # {}
    /\ \E v \in variables : Cardinality(dom0[v] \ domains[v]) >= 1

\* C26: consistent(assignment) always ends by returning True or False, it
\* never raises; in particular, when an assigned word is shorter than its
\* variable's length and a neighbor of that variable is assigned too, the
\* call returns False whatever the order the variables are visited in.
C26_ConsistentNeverRaises ==
    Returned("consistent") =>
        /\ last.ret \in {"True", "False"}
        /\ (\E v \in DOMAIN assignment :
               /\ Len(assignment[v]) < v.length
               /\ Neighbors(variables, v) \cap DOMAIN assignment # {})
              => last.ret = "False"

\* C27: in backtrack the values of the selected variable are tried in the
\* order order_domain_values returned them (the list is taken once, the
\* first value first, each undo moves on to the next one), backtrack is
\* called again only on an extension consistent() accepts, and once a call
\* has returned an assignment no other value is tried: every caller hands the
\* same assignment up, unchanged, and it is the result.
C27_FirstSuccessWins ==
    [][LET frame == stack[Len(stack)]
           pushed == stack'[Len(stack')]
       IN  /\ (pc = "bt_call" /\ pc' = "bt_loop") =>
                 /\ Len(stack') = Len(stack) + 1
                 /\ pushed.k = 1
                 /\ pushed.values \in OrderDomainValues(variables, domains,
                                                       pushed.var, assignment)
           /\ (pc = "bt_loop" /\ pc' = "bt_check") =>
                 /\ stack' = stack
                 /\ frame.var \notin DOMAIN assignment
                 /\ DOMAIN assignment' = DOMAIN assignment \cup {frame.var}
                 /\ assignment'[frame.var] = frame.values[frame.k]
           /\ (pc = "bt_undo") =>
                 /\ Len(stack') = Len(stack)
                 /\ stack'[Len(stack)].values = frame.values
                 /\ stack'[Len(stack)].k = frame.k + 1
           /\ (pc = "bt_check" /\ pc' = "bt_call") =>
                 /\ Consistent(variables, assignment, KeysOf(stack)) = {"True"}
                 /\ assignment' = assignment
           /\ (pc = "bt_return" /\ ~ret.none) =>
                 /\ pc' \in {"bt_return", AfterBacktrack}
                 /\ ret' = ret
                 /\ assignment' = assignment
                 /\ ret.val = assignment
                 /\ pc' = "done" => result' = ret]_vars

\* A call inside the search has returned an assignment to a caller that
\* still had a value left to try.
C27_Witness ==
    /\ pc = "bt_return"
    /\ ~ret.none
    /\ stack # <<>>
    /\ stack[Len(stack)].k < Len(stack[Len(stack)].values)

====
